---------------------------- MODULE Spec2Model ----------------------------
(***************************************************************************)
(* A model of the aggregation engine of dla-sim-tui                        *)
(* (src/src/simulation.rs, struct DlaSimulation).                          *)
(*                                                                         *)
(* Numbers.  The engine mixes usize, i32 and f32.                          *)
(*  - usize / i32 values are integers; i32 additions keep their width.     *)
(*  - max_radius (f32) only ever holds 1.0, an integer seed size, or       *)
(*    sqrt(dx*dx + dy*dy) with dx, dy multiples of 0.5.  It is held as the *)
(*    integer (2*max_radius)^2, which orders exactly as max_radius does.   *)
(*  - stickiness (f32) is held in tenths, or is NaN.                        *)
(*  - the walker's f32 position is held as the integer cell it lies in     *)
(*    (the floor of each coordinate).  A walk step of length 2 in a random *)
(*    direction moves the cell by any non-zero offset in (-2..2)^2; a      *)
(*    distance test on the position may go either way when the cell        *)
(*    straddles the circle tested against.                                 *)
(*  - cos/sin of the Circle seed are taken from a table in millionths.     *)
(***************************************************************************)
EXTENDS Integers, Sequences, FiniteSets, TLC

VARIABLES
    grid_width,       \* DlaSimulation.grid_width
    grid_height,      \* DlaSimulation.grid_height
    grid,             \* DlaSimulation.grid : index -> None or attachment order
    num_particles,    \* DlaSimulation.num_particles
    stickiness,       \* DlaSimulation.stickiness, in tenths, or NaN
    particles_stuck,  \* DlaSimulation.particles_stuck
    max_radius,       \* DlaSimulation.max_radius, as (2*max_radius)^2
    paused,           \* DlaSimulation.paused
    seed_pattern,     \* DlaSimulation.seed_pattern
    pc,               \* "idle": between calls; "walk": inside step()'s loop;
                      \* "panic": the process aborted
    x, y,             \* step(): the walker's cell while pc = "walk"
    iter,             \* step(): the loop index of `for _ in 0..10000`
    draws,            \* step(): the samples `rng.gen::<f32>()` drawn by the
                      \* loop iteration run last
    last,             \* the operation called last
    delta,            \* the delta passed to it, if it was adjust_particles or
                      \* adjust_stickiness; 0 otherwise
    arg_pattern,      \* the pattern passed to the last reset_with_seed
    again,            \* the last call was reset_with_seed(P), made right after
                      \* another reset_with_seed(P) with the same P
    resized,          \* the last call was a resize to other dimensions
    rendered,         \* the last call, if it was render_to_braille: its canvas,
                      \* whether it returned, and the cells it returned
    ret,              \* what the last step() returned: "true", "false", "none"
    outcome,          \* how the last step() ended
    pre               \* <<grid, particles_stuck, max_radius>> at the last step() call

simvars == <<grid_width, grid_height, grid, num_particles, stickiness,
             particles_stuck, max_radius, paused, seed_pattern>>
walkvars == <<x, y, iter, draws>>
vars == <<grid_width, grid_height, grid, num_particles, stickiness,
          particles_stuck, max_radius, paused, seed_pattern,
          pc, x, y, iter, draws, last, delta, arg_pattern, again, resized,
          rendered, ret, outcome, pre>>

-----------------------------------------------------------------------------
(* Values *)

\* Option<usize>::None of a grid cell; Some(n) is n >= 0.
None == -1

\* f32::NAN, held as a value no count of tenths takes.
NaN == -1000000

\* enum SeedPattern
SeedPattern == {"Point", "Line", "Cross", "Circle"}

Min(a, b) == IF a <= b THEN a ELSE b
Max(a, b) == IF a >= b THEN a ELSE b

\* usize::min / i32::clamp on integers
Clamp(v, lo, hi) == IF v < lo THEN lo ELSE IF v > hi THEN hi ELSE v

\* `<f32> as usize` on a value given as num/den (den > 0): truncation,
\* saturating at 0 for negative values.
AsUsize(num, den) == IF num < 0 THEN 0 ELSE num \div den

-----------------------------------------------------------------------------
(* Bounds of the model.  The engine's large constants are scaled down so   *)
(* that every case of step() is reached on grids TLC can enumerate.        *)

\* The grids of Spec, as <<width, height>>.  <<2, 2>> is narrower than
\* step()'s clamp range allows.
GridSizes == {<<2, 2>>, <<5, 4>>, <<8, 3>>}

\* The grids of SpecSeed: every width and height up to MaxSeedDim, a grid
\* whose Cross seed has arms of length 2, and two grids large enough for the
\* size caps of the seeds (20, 10, 15) to apply.
MaxSeedDim == 9
SeedGridSizes ==
    ((1..MaxSeedDim) \X (1..MaxSeedDim)) \cup {<<16, 16>>, <<100, 100>>, <<128, 128>>}

\* `for _ in 0..10000`: the walk iterations of one step(), scaled.
MaxWalkIter == 3
\* `.max(50.0)`: twice the minimum spawn radius, scaled.
MinSpawnRadius2 == 3
\* `self.max_radius + 10.0`: twice the spawn offset, scaled.
SpawnOffset2 == 1
\* `clamp(100, 10000)` and `num_particles: 5000`, scaled.
MinParticles == 2
MaxParticles == 4
DefaultParticles == 3
\* The coordinates get_cell is queried with: 0..MaxQuery, beyond every grid
\* of Spec.
MaxQuery == 9
\* The canvases of SpecRender, as <<canvas_width, canvas_height>>: every
\* width and height up to MaxCanvas, and one whose area exceeds u16::MAX.
MaxCanvas == 4
CanvasSizes == ((1..MaxCanvas) \X (1..MaxCanvas)) \cup {<<256, 256>>}
\* The grids of SpecRender.
RenderGridSizes == {<<5, 4>>, <<8, 3>>}
\* The grids of SpecGrow: one whose Line seed leaves room below the target,
\* and two of at least 8 x 8, where the Cross and Circle seeds have cells.
GrowGridSizes == {<<5, 4>>, <<8, 8>>, <<16, 16>>}

\* The deltas tried by adjust_particles; I32Max makes the i32 sum overflow.
I32Max == 2147483647
I32Min == -2147483647 - 1
ParticleDeltas == {-100000, -1, 1, 100000, I32Max}

\* `clamp(0.1, 1.0)` and `stickiness: 1.0`, in tenths.
MinStickiness == 1
MaxStickiness == 10
\* The deltas tried by adjust_stickiness, in tenths (-5.0, +5.0), and NaN.
StickinessDeltas == {-50, 50, NaN}

-----------------------------------------------------------------------------
(* Seeds: the arms of reset_with_seed *)

\* Line arm: `20.min(self.grid_width / 4)`
LineMaxHalfLen == 20
\* Cross arm: `10.min(self.grid_width / 8).min(self.grid_height / 8)`
CrossMaxArmLen == 10
\* Circle arm: `15.0_f32.min(..).min(..)`
CircleMaxRadius == 15
\* Circle arm: `for angle_deg in 0..360`
CircleSamples == 360

\* sin of 0..90 degrees in millionths
SinTable ==
    <<0, 17452, 34899, 52336, 69756, 87156, 104528, 121869, 139173, 156434,
      173648, 190809, 207912, 224951, 241922, 258819, 275637, 292372, 309017, 325568,
      342020, 358368, 374607, 390731, 406737, 422618, 438371, 453990, 469472, 484810,
      500000, 515038, 529919, 544639, 559193, 573576, 587785, 601815, 615661, 629320,
      642788, 656059, 669131, 681998, 694658, 707107, 719340, 731354, 743145, 754710,
      766044, 777146, 788011, 798636, 809017, 819152, 829038, 838671, 848048, 857167,
      866025, 874620, 882948, 891007, 898794, 906308, 913545, 920505, 927184, 933580,
      939693, 945519, 951057, 956305, 961262, 965926, 970296, 974370, 978148, 981627,
      984808, 987688, 990268, 992546, 994522, 996195, 997564, 998630, 999391, 999848,
      1000000>>

\* (deg as f32).to_radians().sin(), in millionths, for deg in 0..359
SinDeg(deg) ==
    IF deg <= 90 THEN SinTable[deg + 1]
    ELSE IF deg <= 180 THEN SinTable[180 - deg + 1]
    ELSE IF deg <= 270 THEN 0 - SinTable[deg - 180 + 1]
    ELSE 0 - SinTable[360 - deg + 1]

\* (deg as f32).to_radians().cos(), in millionths
CosDeg(deg) == SinDeg((deg + 90) % 360)

\* vec![None; n]  /  grid.fill(None)
EmptyGrid(n) == [i \in 0..(n - 1) |-> None]

\* `self.grid[idx] = Some(0)` for every idx of `filled`, on a grid of None
\* cells whose indices are `indices`.
SeedGrid(indices, filled) == [i \in indices |-> IF i \in filled THEN 0 ELSE None]

\* A seed is returned as [filled |-> indices written, count |-> particles_stuck,
\* radius |-> max_radius as (2*max_radius)^2].

\* PointSeed with the row stride taken from the height.
PointSeedWrongStride(w, h) ==
    LET center_idx == (h \div 2) * h + (w \div 2)
    IN  [filled |-> {center_idx}, count |-> 1, radius |-> 4]

\* Point arm
PointSeed(w, h) ==
    LET center_idx == (h \div 2) * w + (w \div 2)
    IN  [filled |-> {center_idx}, count |-> 1, radius |-> 4]

\* LineSeed with the run written up to end_x inclusive.
LineSeedInclusive(w, h) ==
    LET cy == h \div 2
        half_len == Min(LineMaxHalfLen, w \div 4)
        start_x == (w \div 2) - half_len
        end_x == (w \div 2) + half_len
    IN  [filled |-> {cy * w + xx : xx \in start_x..end_x},
         count |-> end_x - start_x,
         radius |-> 4 * half_len * half_len]

\* Line arm
LineSeed(w, h) ==
    LET cy == h \div 2
        half_len == Min(LineMaxHalfLen, w \div 4)
        start_x == (w \div 2) - half_len
        end_x == (w \div 2) + half_len
    IN  [filled |-> {cy * w + xx : xx \in start_x..(end_x - 1)},
         count |-> end_x - start_x,
         radius |-> 4 * half_len * half_len]

\* Cross arm: the loop `for i in 0..arm_len`, from index i on, having written
\* `filled` and counted `count` so far.
RECURSIVE CrossLoop(_, _, _, _, _, _)
CrossLoop(w, h, arm_len, i, filled, count) ==
    LET cx == w \div 2
        cy == h \div 2
    IN  IF i >= arm_len THEN [filled |-> filled, count |-> count]
        ELSE IF cx >= i /\ cy >= i
             THEN CrossLoop(w, h, arm_len, i + 1,
                            filled \cup {cy * w + (cx - i), cy * w + (cx + i),
                                         (cy - i) * w + cx, (cy + i) * w + cx},
                            count + 4)
             ELSE CrossLoop(w, h, arm_len, i + 1, filled, count)

CrossSeed(w, h) ==
    LET arm_len == Min(Min(CrossMaxArmLen, w \div 8), h \div 8)
        r == CrossLoop(w, h, arm_len, 0, {}, 0)
    IN  [filled |-> r.filled, count |-> r.count, radius |-> 4 * arm_len * arm_len]

\* Circle arm: the cell sampled at angle_deg.  cx = w/2.0 and cy = h/2.0, so
\* 2000000 * (cx + radius*cos) = 1000000*w + 2*radius*CosDeg.
CircleX(w, radius, deg) == AsUsize(1000000 * w + 2 * radius * CosDeg(deg), 2000000)
CircleY(h, radius, deg) == AsUsize(1000000 * h + 2 * radius * SinDeg(deg), 2000000)

\* Circle arm: the loop `for angle_deg in 0..360`.  `samples` pairs each
\* angle whose cell lies in the grid with the index of that cell.  The grid
\* was cleared before, so at an angle `grid[idx].is_none()` holds exactly when
\* no earlier angle wrote idx: `count` counts the angles that are the first
\* to hit their cell.
CircleSeed(w, h) ==
    LET radius == Min(Min(CircleMaxRadius, w \div 8), h \div 8)
        cells == {<<deg, CircleX(w, radius, deg), CircleY(h, radius, deg)>> :
                     deg \in 0..(CircleSamples - 1)}
        samples == {<<c[1], c[3] * w + c[2]>> : c \in {c \in cells : c[2] < w /\ c[3] < h}}
        first == {s \in samples : \A e \in samples : e[1] < s[1] => e[2] # s[2]}
    IN  [filled |-> {s[2] : s \in samples},
         count |-> Cardinality(first),
         radius |-> 4 * radius * radius]

\* CircleSeed of every grid size of the model, computed once.
CircleSeedTable ==
    {[w |-> d[1], h |-> d[2], seed |-> CircleSeed(d[1], d[2])] :
        d \in GridSizes \cup SeedGridSizes \cup GrowGridSizes}
CircleSeedOf(w, h) == (CHOOSE r \in CircleSeedTable : r.w = w /\ r.h = h).seed

\* `match pattern { ... }`
Seed(pattern, w, h) ==
    CASE pattern = "Point" -> PointSeed(w, h)
      [] pattern = "Line" -> LineSeed(w, h)
      [] pattern = "Cross" -> CrossSeed(w, h)
      [] pattern = "Circle" -> CircleSeedOf(w, h)


-----------------------------------------------------------------------------
(* reset_with_seed, new, resize *)

\* Cleared filling the grid in place whatever its length.
ClearedInPlace(g, n) == [i \in DOMAIN g |-> None]

\* `if self.grid.len() != required_size { vec![None; n] } else { fill(None) }`
Cleared(g, n) ==
    IF Cardinality(DOMAIN g) # n THEN EmptyGrid(n) ELSE [i \in DOMAIN g |-> None]

\* ResetTo adding the seed's count to particles_stuck instead of setting it.
ResetToAccumulating(g, w, h, pattern) ==
    LET required_size == w * h
        s == Seed(pattern, w, h)
    IN  /\ grid' = SeedGrid(DOMAIN Cleared(g, required_size), s.filled)
        /\ seed_pattern' = pattern
        /\ particles_stuck' = particles_stuck + s.count
        /\ max_radius' = s.radius
        /\ paused' = FALSE

\* The body of reset_with_seed(pattern) on a simulation whose dimensions are
\* w x h and whose grid is g.
ResetTo(g, w, h, pattern) ==
    LET required_size == w * h
        s == Seed(pattern, w, h)
    IN  /\ grid' = SeedGrid(DOMAIN Cleared(g, required_size), s.filled)
        /\ seed_pattern' = pattern
        /\ particles_stuck' = s.count
        /\ max_radius' = s.radius
        /\ paused' = FALSE

NoPre == <<>>
NoRender == [canvas_width |-> 0, canvas_height |-> 0, returned |-> FALSE, cells |-> <<>>]
Snapshot == <<grid, particles_stuck, max_radius>>

\* The record of a call other than step(): its name, its delta if it has
\* one, the pattern of the last reset_with_seed, and whether it repeats it.
Called(op, d, pattern, repeats) ==
    /\ last' = op
    /\ delta' = d
    /\ arg_pattern' = pattern
    /\ again' = repeats
    /\ resized' = (op = "resize" /\ <<grid_width', grid_height'>> # <<grid_width, grid_height>>)
    /\ rendered' = NoRender
    /\ ret' = "none"
    /\ outcome' = "none"
    /\ pre' = NoPre
    /\ draws' = 0
    /\ UNCHANGED <<x, y, iter>>

\* DlaSimulation::new(width, height)
New(w, h) ==
    /\ grid_width = w
    /\ grid_height = h
    /\ num_particles = DefaultParticles
    /\ stickiness = MaxStickiness
    /\ LET s == Seed("Point", w, h)
       IN  /\ grid = SeedGrid(DOMAIN EmptyGrid(w * h), s.filled)
           /\ particles_stuck = s.count
           /\ max_radius = s.radius
    /\ paused = FALSE
    /\ seed_pattern = "Point"
    /\ pc = "idle"
    /\ x = 0
    /\ y = 0
    /\ iter = 0
    /\ draws = 0
    /\ last = "new"
    /\ delta = 0
    /\ arg_pattern = "Point"
    /\ again = FALSE
    /\ resized = FALSE
    /\ rendered = NoRender
    /\ ret = "none"
    /\ outcome = "none"
    /\ pre = NoPre

\* reset_with_seed(pattern)
ResetWithSeed(pattern) ==
    /\ pc = "idle"
    /\ ResetTo(grid, grid_width, grid_height, pattern)
    /\ UNCHANGED <<grid_width, grid_height, num_particles, stickiness, pc>>
    /\ Called("reset_with_seed", 0, pattern,
              last = "reset_with_seed" /\ arg_pattern = pattern)

\* reset()
Reset == ResetWithSeed(seed_pattern)

\* Resize resetting even when the dimensions are the current ones.
ResizeAlways(new_width, new_height) ==
    /\ pc = "idle"
    /\ grid_width' = new_width
    /\ grid_height' = new_height
    /\ ResetTo(grid, new_width, new_height, seed_pattern)
    /\ UNCHANGED <<num_particles, stickiness, pc>>
    /\ Called("resize", 0, arg_pattern, FALSE)

\* Resize keeping the old grid instead of resetting.
ResizeNoReset(new_width, new_height) ==
    /\ pc = "idle"
    /\ grid_width' = new_width
    /\ grid_height' = new_height
    /\ UNCHANGED <<grid, seed_pattern, particles_stuck, max_radius, paused>>
    /\ UNCHANGED <<num_particles, stickiness, pc>>
    /\ Called("resize", 0, arg_pattern, FALSE)

\* resize(new_width, new_height)
Resize(new_width, new_height) ==
    /\ pc = "idle"
    /\ IF new_width # grid_width \/ new_height # grid_height
       THEN /\ grid_width' = new_width
            /\ grid_height' = new_height
            /\ ResetTo(grid, new_width, new_height, seed_pattern)
       ELSE UNCHANGED <<grid_width, grid_height, grid, seed_pattern,
                        particles_stuck, max_radius, paused>>
    /\ UNCHANGED <<num_particles, stickiness, pc>>
    /\ Called("resize", 0, arg_pattern, FALSE)

\* toggle_pause()
TogglePause ==
    /\ pc = "idle"
    /\ paused' = ~paused
    /\ UNCHANGED <<grid_width, grid_height, grid, num_particles, stickiness,
                   particles_stuck, max_radius, seed_pattern, pc>>
    /\ Called("toggle_pause", 0, arg_pattern, FALSE)

-----------------------------------------------------------------------------
(* adjust_particles, adjust_stickiness *)

\* i32 addition: whether a + b leaves the i32 range, and the sum as a build
\* without overflow checks leaves it (wrapped to 32 bits).  Written so that
\* no intermediate value leaves the range either.
OverflowsI32(a, b) ==
    IF a >= 0 THEN b > I32Max - a ELSE b < I32Min - a
WrappingAddI32(a, b) ==
    IF ~OverflowsI32(a, b) THEN a + b
    ELSE IF a >= 0 THEN I32Min + ((a - (I32Max - b)) - 1)
    ELSE I32Max - (((I32Min - a) - b) - 1)

\* adjust_particles(delta): `(self.num_particles as i32 + delta)` overflows
\* when the sum leaves the i32 range; a build with overflow checks panics
\* there, a build without wraps the sum.
AdjustParticles(delta_arg) ==
    /\ pc = "idle"
    /\ \/ /\ num_particles' =
                Clamp(WrappingAddI32(num_particles, delta_arg), MinParticles, MaxParticles)
          /\ UNCHANGED pc
       \/ /\ OverflowsI32(num_particles, delta_arg)
          /\ pc' = "panic"
          /\ UNCHANGED num_particles
    /\ UNCHANGED <<grid_width, grid_height, grid, stickiness, particles_stuck,
                   max_radius, paused, seed_pattern>>
    /\ Called("adjust_particles", delta_arg, arg_pattern, FALSE)

\* f32 addition, in tenths: NaN if either operand is NaN.
AddF32(a, b) == IF a = NaN \/ b = NaN THEN NaN ELSE a + b

\* f32::clamp(min, max): NaN stays NaN.
ClampF32(v, lo, hi) == IF v = NaN THEN NaN ELSE Clamp(v, lo, hi)

\* adjust_stickiness(delta)
AdjustStickiness(delta_arg) ==
    /\ pc = "idle"
    /\ stickiness' = ClampF32(AddF32(stickiness, delta_arg), MinStickiness, MaxStickiness)
    /\ UNCHANGED <<grid_width, grid_height, grid, num_particles, particles_stuck,
                   max_radius, paused, seed_pattern, pc>>
    /\ Called("adjust_stickiness", delta_arg, arg_pattern, FALSE)

-----------------------------------------------------------------------------
(* step() *)

\* sqrt(d) > sqrt(q) + c and sqrt(d) >= sqrt(q) + c, for integers d, q, c >= 0
SqrtGt(d, q, c) == LET m == d - q - c * c IN m > 0 /\ m * m > 4 * c * c * q
SqrtGe(d, q, c) == LET m == d - q - c * c IN m >= 0 /\ m * m >= 4 * c * c * q

\* `(self.max_radius + 10.0).max(50.0)`, compared with a distance: for a
\* squared doubled distance d2 (d2 = (2*dist)^2) and a factor k,
\* dist > k * spawn_radius and dist >= k * spawn_radius.
\* 2*spawn_radius = max(sqrt(max_radius) + SpawnOffset2, MinSpawnRadius2).
GtSpawnRadius(d2, k) ==
    /\ d2 > k * k * MinSpawnRadius2 * MinSpawnRadius2
    /\ SqrtGt(d2, k * k * max_radius, k * SpawnOffset2)
GeSpawnRadius(d2, k) ==
    /\ d2 >= k * k * MinSpawnRadius2 * MinSpawnRadius2
    /\ SqrtGe(d2, k * k * max_radius, k * SpawnOffset2)

\* Dist2 measured from the centre cell (grid_width/2, grid_height/2) of
\* integer division.
Dist2IntegerCentre(ix, iy) ==
    (2 * ix - 2 * (grid_width \div 2)) * (2 * ix - 2 * (grid_width \div 2))
        + (2 * iy - 2 * (grid_height \div 2)) * (2 * iy - 2 * (grid_height \div 2))

\* The squared doubled distance from the centre (grid_width/2.0,
\* grid_height/2.0) of the point (ix, iy): dx*dx + dy*dy, times 4.
Dist2(ix, iy) ==
    (2 * ix - grid_width) * (2 * ix - grid_width)
        + (2 * iy - grid_height) * (2 * iy - grid_height)

Abs(v) == IF v < 0 THEN 0 - v ELSE v

\* The least and the greatest squared doubled distance from the centre of a
\* position lying in cell (cx, cy), i.e. in [cx, cx+1] x [cy, cy+1].
NearAxis(c, len) == IF 2 * c <= len /\ len <= 2 * c + 2 THEN 0
                    ELSE Min(Abs(2 * c - len), Abs(2 * c + 2 - len))
FarAxis(c, len) == Max(Abs(2 * c - len), Abs(2 * c + 2 - len))
NearDist2(cx, cy) ==
    NearAxis(cx, grid_width) * NearAxis(cx, grid_width)
        + NearAxis(cy, grid_height) * NearAxis(cy, grid_height)
FarDist2(cx, cy) ==
    FarAxis(cx, grid_width) * FarAxis(cx, grid_width)
        + FarAxis(cy, grid_height) * FarAxis(cy, grid_height)

\* The least integer n with n * n >= v.
CeilSqrt(v) == CHOOSE n \in 0..v : n * n >= v /\ \A m \in 0..(n - 1) : m * m < v

\* An integer no smaller than spawn_radius.
SpawnReach == Max(MinSpawnRadius2, CeilSqrt(max_radius) + SpawnOffset2)

\* `center + spawn_radius * (angle.cos(), angle.sin())` for an angle in
\* 0.0..TAU: the cells the circle of radius spawn_radius passes through.
SpawnCells ==
    {c \in ((grid_width \div 2 - SpawnReach - 1)..(grid_width \div 2 + SpawnReach + 1))
           \X ((grid_height \div 2 - SpawnReach - 1)..(grid_height \div 2 + SpawnReach + 1)) :
        /\ ~GtSpawnRadius(NearDist2(c[1], c[2]), 1)
        /\ GeSpawnRadius(FarDist2(c[1], c[2]), 1)}


\* `x += 2.0 * walk_angle.cos(); y += 2.0 * walk_angle.sin()`: the offsets by
\* which a move of length 2 changes the walker's cell.
WalkOffsets == {d \in (-2..2) \X (-2..2) : d # <<0, 0>>}

\* The indices of the 8 neighbours of (ix, iy), in the order the loops
\* `for ndy in -1..=1 { for ndx in -1..=1 {` read them.
NeighbourIdx(ix, iy) ==
    LET at(ndx, ndy) == (iy + ndy) * grid_width + (ix + ndx)
    IN  <<at(-1, -1), at(0, -1), at(1, -1), at(-1, 0), at(1, 0),
          at(-1, 1), at(0, 1), at(1, 1)>>

\* `rng.gen::<f32>() < self.stickiness` for a sample in [0, 1): whether some
\* sample passes, and whether some sample fails.
SamplePasses == stickiness # NaN /\ stickiness > 0
SampleFails == stickiness = NaN \/ stickiness < 10

\* Scan drawing a sample for every neighbour, occupied or not.
RECURSIVE ScanAnyNeighbour(_, _, _)
ScanAnyNeighbour(nb, i, n) ==
    IF i > Len(nb) THEN {[stick |-> FALSE, draws |-> n]}
    ELSE (IF SamplePasses THEN {[stick |-> TRUE, draws |-> n + 1]} ELSE {})
         \cup (IF SampleFails THEN ScanAnyNeighbour(nb, i + 1, n + 1) ELSE {})

\* Scan with the occupancy test inverted: a sample is drawn for every empty
\* neighbour.
RECURSIVE ScanInverted(_, _, _)
ScanInverted(nb, i, n) ==
    IF i > Len(nb) THEN {[stick |-> FALSE, draws |-> n]}
    ELSE IF grid[nb[i]] = None
         THEN (IF SamplePasses THEN {[stick |-> TRUE, draws |-> n + 1]} ELSE {})
              \cup (IF SampleFails THEN ScanInverted(nb, i + 1, n + 1) ELSE {})
         ELSE ScanInverted(nb, i + 1, n)

\* The neighbour loop from the i-th neighbour on, `n` samples drawn so far:
\* the possible [stick |-> should_stick, draws |-> samples drawn].
RECURSIVE Scan(_, _, _)
Scan(nb, i, n) ==
    IF i > Len(nb) THEN {[stick |-> FALSE, draws |-> n]}
    ELSE IF grid[nb[i]] # None
         THEN (IF SamplePasses THEN {[stick |-> TRUE, draws |-> n + 1]} ELSE {})
              \cup (IF SampleFails THEN Scan(nb, i + 1, n + 1) ELSE {})
         ELSE Scan(nb, i + 1, n)

\* `return <value>` from step(): the locals are dropped.
Return(value, how) ==
    /\ pc' = "idle"
    /\ ret' = value
    /\ outcome' = how
    /\ x' = 0
    /\ y' = 0
    /\ iter' = 0

\* StepGuard letting a simulation that has just reached its target go on.
StepGuardOffByOne == paused \/ particles_stuck > num_particles

\* StepGuard without the test for completion.
StepGuardPausedOnly == paused

\* `if self.paused || self.particles_stuck >= self.num_particles`
StepGuard == paused \/ particles_stuck >= num_particles

\* step(), up to the first iteration of the walk loop.
StepBegin ==
    /\ pc = "idle"
    /\ last' = "step"
    /\ delta' = 0
    /\ again' = FALSE
    /\ resized' = FALSE
    /\ rendered' = NoRender
    /\ pre' = Snapshot
    /\ draws' = 0
    /\ UNCHANGED <<simvars, arg_pattern>>
    /\ IF StepGuard
       THEN Return("false", "noop")
       ELSE /\ \E c \in SpawnCells : x' = c[1] /\ y' = c[2]
            /\ iter' = 0
            /\ pc' = "walk"
            /\ ret' = "none"
            /\ outcome' = "none"

\* Stick decrementing particles_stuck.
StickCountingDown(ix, iy) ==
    /\ grid' = [grid EXCEPT ![iy * grid_width + ix] = particles_stuck]
    /\ particles_stuck' = particles_stuck - 1
    /\ max_radius' = Max(max_radius, Dist2(ix, iy))
    /\ Return("true", "stick")
    /\ UNCHANGED <<grid_width, grid_height, num_particles, stickiness, paused,
                   seed_pattern>>

\* Stick assigning the new distance to max_radius instead of the maximum.
StickAssigningRadius(ix, iy) ==
    /\ grid' = [grid EXCEPT ![iy * grid_width + ix] = particles_stuck]
    /\ particles_stuck' = particles_stuck + 1
    /\ max_radius' = Dist2(ix, iy)
    /\ Return("true", "stick")
    /\ UNCHANGED <<grid_width, grid_height, num_particles, stickiness, paused,
                   seed_pattern>>

\* Stick writing the cell after the walker's.
StickOffByOne(ix, iy) ==
    /\ grid' = [grid EXCEPT ![iy * grid_width + ix + 1] = particles_stuck]
    /\ particles_stuck' = particles_stuck + 1
    /\ max_radius' = Max(max_radius, Dist2(ix, iy))
    /\ Return("true", "stick")
    /\ UNCHANGED <<grid_width, grid_height, num_particles, stickiness, paused,
                   seed_pattern>>

\* The stick branch of the loop body.
Stick(ix, iy) ==
    /\ grid' = [grid EXCEPT ![iy * grid_width + ix] = particles_stuck]
    /\ particles_stuck' = particles_stuck + 1
    /\ max_radius' = Max(max_radius, Dist2(ix, iy))
    /\ Return("true", "stick")
    /\ UNCHANGED <<grid_width, grid_height, num_particles, stickiness, paused,
                   seed_pattern>>

\* Walk without the clamp of the new position.
WalkUnclamped ==
    /\ UNCHANGED simvars
    /\ IF grid_width < 3 \/ grid_height < 3
       THEN /\ pc' = "panic"
            /\ UNCHANGED <<x, y, iter, ret, outcome>>
       ELSE \E d \in WalkOffsets :
              IF iter + 1 >= MaxWalkIter
              THEN Return("true", "cap")
              ELSE /\ x' = x + d[1]
                   /\ y' = y + d[2]
                   /\ iter' = iter + 1
                   /\ UNCHANGED <<pc, ret, outcome>>

\* The walk branch of the loop body: move, clamp, next iteration.  f32::clamp
\* panics when its lower bound exceeds its upper bound.
Walk ==
    /\ UNCHANGED simvars
    /\ IF grid_width < 3 \/ grid_height < 3
       THEN /\ pc' = "panic"
            /\ UNCHANGED <<x, y, iter, ret, outcome>>
       ELSE \E d \in WalkOffsets :
              IF iter + 1 >= MaxWalkIter
              THEN Return("true", "cap")
              ELSE /\ x' = Clamp(x + d[1], 1, grid_width - 2)
                   /\ y' = Clamp(y + d[2], 1, grid_height - 2)
                   /\ iter' = iter + 1
                   /\ UNCHANGED <<pc, ret, outcome>>

\* Escape counting the escaped particle as stuck.
EscapeCounted ==
    /\ draws' = 0
    /\ Return("true", "escape")
    /\ particles_stuck' = particles_stuck + 1
    /\ UNCHANGED <<grid_width, grid_height, grid, num_particles, stickiness,
                   max_radius, paused, seed_pattern>>

\* `if dist > spawn_radius * 2.0 { return true; }`
Escape ==
    /\ draws' = 0
    /\ Return("true", "escape")
    /\ UNCHANGED simvars

\* One iteration of `for _ in 0..10000 { ... }`.
WalkIter ==
    /\ pc = "walk"
    /\ UNCHANGED <<last, delta, arg_pattern, again, resized, rendered, pre>>
    /\ \/ /\ GtSpawnRadius(FarDist2(x, y), 2)
          /\ Escape
       \/ /\ ~GtSpawnRadius(NearDist2(x, y), 2)
          /\ LET ix == AsUsize(x, 1)
                 iy == AsUsize(y, 1)
                 inside == /\ ix > 0 /\ ix < grid_width - 1
                           /\ iy > 0 /\ iy < grid_height - 1
                 scans == IF inside THEN Scan(NeighbourIdx(ix, iy), 1, 0)
                          ELSE {[stick |-> FALSE, draws |-> 0]}
             IN  \E o \in scans :
                    /\ draws' = o.draws
                    /\ IF o.stick THEN Stick(ix, iy) ELSE Walk

-----------------------------------------------------------------------------
(* Queries *)

\* GetCell indexing the grid by columns.
GetCellColumnMajor(cx, cy) ==
    IF cx < grid_width /\ cy < grid_height THEN grid[cx * grid_height + cy] ELSE None

\* get_cell(x, y): None outside the grid, else the cell of row y, column x.
GetCell(cx, cy) ==
    IF cx < grid_width /\ cy < grid_height THEN grid[cy * grid_width + cx] ELSE None

\* progress(): particles_stuck / num_particles, as <<numerator, denominator>>.
Progress == <<particles_stuck, num_particles>>

\* a <= b for two such ratios with positive denominators.
RatioLe(a, b) == a[1] * b[2] <= b[1] * a[2]

\* is_complete()
IsComplete == particles_stuck >= num_particles

-----------------------------------------------------------------------------
(* render_to_braille (src/src/braille.rs) *)

\* `const BRAILLE_BASE: u32 = 0x2800`
BRAILLE_BASE == 10240

\* BRAILLE_DOTS with the bits numbered column by column.
BRAILLE_DOTS_Sequential == <<<<1, 2, 4, 8>>, <<16, 32, 64, 128>>>>

\* `const BRAILLE_DOTS: [[u8; 4]; 2]`: BRAILLE_DOTS[dx + 1][dy + 1] is the
\* source's BRAILLE_DOTS[dx][dy].
BRAILLE_DOTS == <<<<1, 2, 4, 64>>, <<8, 16, 32, 128>>>>

\* u16::MAX
U16Max == 65535

\* a | b on non-negative integers
RECURSIVE BitOr(_, _)
BitOr(a, b) ==
    IF a = 0 THEN b
    ELSE IF b = 0 THEN a
    ELSE (IF a % 2 = 1 \/ b % 2 = 1 THEN 1 ELSE 0) + 2 * BitOr(a \div 2, b \div 2)

\* The dots of a character in the order `for dx in 0..2 { for dy in 0..4 {`.
DotSeq == <<<<0, 0>>, <<0, 1>>, <<0, 2>>, <<0, 3>>, <<1, 0>>, <<1, 1>>, <<1, 2>>, <<1, 3>>>>

\* `(braille_x as f32 * scale_x) as usize` with scale_x = sim / braille: the
\* simulation coordinate sampled for a dot coordinate.
SimCoord(braille_c, sim, braille) == AsUsize(braille_c * sim, braille)

\* The cell sampled for dot (dx, dy) of canvas position (cx, cy).
Sampled(cx, cy, dx, dy, canvas_width, canvas_height) ==
    GetCell(SimCoord(cx * 2 + dx, grid_width, canvas_width * 2),
            SimCoord(cy * 4 + dy, grid_height, canvas_height * 4))

\* The dot loops from the i-th dot on: `pattern |= BRAILLE_DOTS[dx][dy]`
\* for every dot whose sampled cell is occupied.
RECURSIVE DotLoop(_, _, _, _, _, _)
DotLoop(cx, cy, canvas_width, canvas_height, i, pattern) ==
    IF i > Len(DotSeq) THEN pattern
    ELSE LET dx == DotSeq[i][1]
             dy == DotSeq[i][2]
         IN  DotLoop(cx, cy, canvas_width, canvas_height, i + 1,
                     IF Sampled(cx, cy, dx, dy, canvas_width, canvas_height) # None
                     THEN BitOr(pattern, BRAILLE_DOTS[dx + 1][dy + 1])
                     ELSE pattern)

\* `char::from_u32(v).unwrap_or(' ')`, as a code point
CharFromU32(v) ==
    IF (v >= 55296 /\ v <= 57343) \/ v > 1114111 THEN 32 ELSE v

\* The loops `for cy in 0..canvas_height { for cx in 0..canvas_width {`: the
\* k-th position visited is (cx, cy) = ((k-1) % width, (k-1) / width); a cell
\* is pushed for every position whose pattern is not 0.
RenderToBraille(canvas_width, canvas_height) ==
    LET visited == [k \in 1..(canvas_width * canvas_height) |->
                      LET cx == (k - 1) % canvas_width
                          cy == (k - 1) \div canvas_width
                      IN  <<cx, cy, DotLoop(cx, cy, canvas_width, canvas_height, 1, 0)>>]
        NonEmpty(v) == v[3] # 0
        pushed == SelectSeq(visited, NonEmpty)
    IN  [i \in 1..Len(pushed) |->
            [x |-> pushed[i][1], y |-> pushed[i][2],
             char |-> CharFromU32(BRAILLE_BASE + pushed[i][3])]]

\* render_to_braille(simulation, canvas_width, canvas_height, ..).
\* `(canvas_width * canvas_height) as usize` multiplies in u16: when the
\* product exceeds u16::MAX a build with overflow checks panics there, and a
\* build without them only asks for a smaller capacity.
Render(canvas_width, canvas_height) ==
    /\ pc = "idle"
    /\ \/ /\ canvas_width * canvas_height > U16Max
          /\ pc' = "panic"
          /\ rendered' = [canvas_width |-> canvas_width, canvas_height |-> canvas_height,
                          returned |-> FALSE, cells |-> <<>>]
       \/ /\ UNCHANGED pc
          /\ rendered' = [canvas_width |-> canvas_width, canvas_height |-> canvas_height,
                          returned |-> TRUE,
                          cells |-> RenderToBraille(canvas_width, canvas_height)]
    /\ last' = "render_to_braille"
    /\ delta' = 0
    /\ again' = FALSE
    /\ resized' = FALSE
    /\ ret' = "none"
    /\ outcome' = "none"
    /\ pre' = NoPre
    /\ draws' = 0
    /\ UNCHANGED <<simvars, x, y, iter, arg_pattern>>

-----------------------------------------------------------------------------
(* The status box: the fractal dimension line *)

\* calculate_fractal_dimension(): the least particle count it analyses.
MinSampleThreshold == 3

\* The (dimension, r_squared) pairs a regression may return, in halves.
FractalEstimates == (0..4) \X (0..2)

\* calculate_fractal_dimension(): the results it may return.  Below the
\* threshold the sentinel (0.0, 0.0); otherwise the slope and R^2 of a
\* regression over the grid, left open here.
CalculateFractalDimension ==
    IF particles_stuck < MinSampleThreshold THEN {<<0, 0>>} ELSE FractalEstimates

\* DimText showing the dimension whenever it is not negative.
DimTextNonNegative(fractal_dim, r_squared) ==
    IF fractal_dim >= 0 THEN <<"D_f", fractal_dim, r_squared>> ELSE <<"D_f: --">>

\* render_status_box: `dim_text`, the placeholder unless fractal_dim > 0.0.
DimText(fractal_dim, r_squared) ==
    IF fractal_dim > 0 THEN <<"D_f", fractal_dim, r_squared>> ELSE <<"D_f: --">>

-----------------------------------------------------------------------------
(* The engine *)

Init == \E d \in GridSizes : New(d[1], d[2])

Next ==
    \/ StepBegin
    \/ WalkIter
    \/ \E p \in SeedPattern : ResetWithSeed(p)
    \/ Reset
    \/ \E d \in GridSizes : Resize(d[1], d[2])
    \/ TogglePause
    \/ \E d \in ParticleDeltas : AdjustParticles(d)
    \/ \E d \in StickinessDeltas : AdjustStickiness(d)

Spec == Init /\ [][Next]_vars

\* The seeds alone: new, reset_with_seed, reset and resize over SeedGridSizes.
InitSeed == \E d \in SeedGridSizes : New(d[1], d[2])

NextSeed ==
    \/ \E p \in SeedPattern : ResetWithSeed(p)
    \/ Reset
    \/ \E d \in SeedGridSizes : Resize(d[1], d[2])

SpecSeed == InitSeed /\ [][NextSeed]_vars

\* Rendering: new, reset_with_seed and render_to_braille.  render_to_braille
\* only reads the simulation, so what it returns after another render is what
\* it returns alone: a render follows a call that is not a render.
InitRender == \E d \in RenderGridSizes : New(d[1], d[2])

NextRender ==
    \/ \E p \in SeedPattern : ResetWithSeed(p)
    \/ \E c \in CanvasSizes : last # "render_to_braille" /\ Render(c[1], c[2])

SpecRender == InitRender /\ [][NextRender]_vars

\* Growth: a simulation is set up by new, reset_with_seed and
\* adjust_stickiness calls, and from then on only step() is called.
InitGrow == \E d \in GrowGridSizes : New(d[1], d[2])

\* No step() has been called yet.
Setup == last # "step"

NextGrow ==
    \/ Setup /\ \E p \in SeedPattern : ResetWithSeed(p)
    \/ Setup /\ \E d \in StickinessDeltas : AdjustStickiness(d)
    \/ StepBegin
    \/ WalkIter

SpecGrow == InitGrow /\ [][NextGrow]_vars

\* The walker stands on an interior cell that has an occupied neighbour.
BesideCluster ==
    /\ pc = "walk"
    /\ x > 0 /\ x < grid_width - 1 /\ y > 0 /\ y < grid_height - 1
    /\ \E k \in 1..8 : grid[NeighbourIdx(x, y)[k]] # None

\* step() is called again and again and each call runs to its return; of the
\* random choices, a spawn point or a walk move that puts the walker beside
\* the cluster, and a sample that passes, are taken eventually if they are
\* possible again and again.
FairGrow ==
    /\ WF_vars(StepBegin)
    /\ WF_vars(WalkIter)
    /\ SF_vars(StepBegin /\ BesideCluster')
    /\ SF_vars(WalkIter /\ BesideCluster')
    /\ SF_vars(WalkIter /\ outcome' = "stick")

\* Growth under fair scheduling and fair random choices.
SpecLive == InitGrow /\ [][NextGrow]_vars /\ FairGrow

-----------------------------------------------------------------------------
(* Properties *)

\* The indices of the occupied cells, and the occupied cells as <<x, y>>.
Occupied == {i \in DOMAIN grid : grid[i] # None}
OccupiedCells ==
    {c \in (0..(grid_width - 1)) \X (0..(grid_height - 1)) : GetCell(c[1], c[2]) # None}

\* C1: in every reachable state the number of occupied grid cells equals
\* particles_stuck.
C1_OccupancyEqualsStuck == Cardinality(Occupied) = particles_stuck

\* C2: a step() called while paused or complete returns false and leaves the
\* grid, particles_stuck, max_radius, paused, num_particles, stickiness and
\* seed_pattern (and the dimensions) unchanged.
C2_NoopStepChangesNothing ==
    [][(pc = "idle" /\ last' = "step" /\ (paused \/ particles_stuck >= num_particles))
          => (pc' = "idle" /\ ret' = "false" /\ UNCHANGED simvars)]_vars

\* A step() has just returned false on a simulation that is complete but not
\* paused.
C2_Witness ==
    /\ last = "step" /\ pc = "idle" /\ outcome = "noop" /\ ret = "false"
    /\ ~paused /\ particles_stuck >= num_particles

\* C3: whenever step() returns true the simulation is still active on return:
\* not paused, and particles_stuck < num_particles.
C3_TrueMeansStillActive ==
    (last = "step" /\ pc = "idle" /\ ret = "true")
        => (~paused /\ particles_stuck < num_particles)

\* C4: a step() whose particle escapes or exhausts the iteration budget
\* returns true and leaves the grid, particles_stuck and max_radius as they
\* were when it was called.
C4_DiscardedParticleChangesNothing ==
    (last = "step" /\ outcome \in {"escape", "cap"})
        => (pc = "idle" /\ ret = "true" /\ pre = Snapshot)

\* A step() has just returned because its particle escaped from a grid that
\* holds a cluster.
C4_Witness ==
    /\ last = "step" /\ pc = "idle" /\ outcome = "escape" /\ ret = "true"
    /\ Cardinality(Occupied) >= 1 /\ pre = Snapshot

\* C5: every step() returns: at once when paused or complete, and otherwise
\* from one of at most MaxWalkIter loop iterations, by sticking, escaping or
\* exhausting the budget.
C5_StepReturnsWithinCap ==
    [][/\ (pc = "idle" /\ last' = "step" /\ (paused \/ particles_stuck >= num_particles))
            => pc' = "idle"
       /\ pc = "walk"
            => /\ iter < MaxWalkIter
               /\ \/ pc' = "walk" /\ iter' = iter + 1
                  \/ /\ pc' = "idle" /\ ret' = "true"
                     /\ outcome' \in {"stick", "escape", "cap"}]_vars

\* C6: after adjust_particles and adjust_stickiness calls with arbitrary
\* deltas num_particles is in [MinParticles, MaxParticles] and stickiness in
\* [0.1, 1.0]; no request is rejected, and one beyond the range gives exactly
\* the nearest bound.
C6_AdjustClampsToRange ==
    /\ num_particles \in MinParticles..MaxParticles
    /\ stickiness \in MinStickiness..MaxStickiness
    /\ last \in {"adjust_particles", "adjust_stickiness"} => pc = "idle"
    /\ (last = "adjust_particles" /\ delta >= MaxParticles - MinParticles)
          => num_particles = MaxParticles
    /\ (last = "adjust_particles" /\ delta <= MinParticles - MaxParticles)
          => num_particles = MinParticles
    /\ (last = "adjust_stickiness" /\ delta # NaN
            /\ delta <= MinStickiness - MaxStickiness)
          => stickiness = MinStickiness

\* C7: after reset_with_seed(P) particles_stuck is the number of cells the
\* seed occupies, seed_pattern is P and paused is false.
C7_ResetCountsSeedCells ==
    last = "reset_with_seed"
        => /\ particles_stuck = Cardinality(Occupied)
           /\ seed_pattern = arg_pattern
           /\ ~paused

\* C8: reset_with_seed(P) called right after reset_with_seed(P) leaves the
\* grid, particles_stuck, max_radius, paused and seed_pattern as the first
\* call left them.
C8_ResetIdempotent ==
    [][(last = "reset_with_seed" /\ last' = "reset_with_seed"
            /\ arg_pattern' = arg_pattern)
          => UNCHANGED <<grid, particles_stuck, max_radius, paused, seed_pattern>>]_vars

\* reset_with_seed(Line) was just called twice in a row, on a grid whose Line
\* seed has cells.
C8_Witness ==
    /\ again /\ last = "reset_with_seed" /\ arg_pattern = "Line"
    /\ particles_stuck >= 2

\* C9: after reset_with_seed(Point) particles_stuck is 1 and the only
\* occupied cell is (width/2, height/2).
C9_PointSeed ==
    (last = "reset_with_seed" /\ arg_pattern = "Point")
        => /\ particles_stuck = 1
           /\ OccupiedCells = {<<grid_width \div 2, grid_height \div 2>>}

\* reset_with_seed(Point) was just called on a 7 x 4 grid.
C9_Witness ==
    /\ last = "reset_with_seed" /\ arg_pattern = "Point"
    /\ grid_width = 7 /\ grid_height = 4 /\ GetCell(3, 2) = 0

\* C10: after reset_with_seed(Line) particles_stuck is 2*min(20, width/4) and
\* the occupied cells are exactly the run
\* [width/2 - min(20, width/4), width/2 + min(20, width/4)) of row height/2.
C10_LineSeed ==
    (last = "reset_with_seed" /\ arg_pattern = "Line")
        => LET half == Min(20, grid_width \div 4)
           IN  /\ particles_stuck = 2 * half
               /\ OccupiedCells =
                    {<<xx, grid_height \div 2>> :
                        xx \in (grid_width \div 2 - half)..(grid_width \div 2 + half - 1)}

\* reset_with_seed(Line) was just called on the 100 x 100 grid: 40 cells.
C10_Witness ==
    /\ last = "reset_with_seed" /\ arg_pattern = "Line"
    /\ grid_width = 100 /\ grid_height = 100 /\ particles_stuck = 40

\* C11: resize(w, h) with the current dimensions changes nothing: grid,
\* particles_stuck, max_radius, paused, num_particles, stickiness and
\* seed_pattern stay as they are.
C11_SameSizeResizeIsNoop ==
    [][(pc = "idle" /\ last' = "resize"
            /\ grid_width' = grid_width /\ grid_height' = grid_height)
          => UNCHANGED simvars]_vars

\* resize with the current dimensions was just called on a paused simulation
\* grown beyond its Point seed.
C11_Witness ==
    /\ last = "resize" /\ ~resized /\ paused
    /\ seed_pattern = "Point" /\ Cardinality(Occupied) >= 2

\* C12: resize(w, h) to other dimensions leaves what reset() leaves on a
\* w x h grid with the active seed pattern: a grid of w*h cells holding only
\* the seed, particles_stuck and max_radius of the seed, paused false, and
\* num_particles, stickiness and seed_pattern kept.
C12_ResizeReseeds ==
    [][(pc = "idle" /\ last' = "resize"
            /\ <<grid_width', grid_height'>> # <<grid_width, grid_height>>)
          => LET fresh == Seed(seed_pattern, grid_width', grid_height')
             IN  /\ DOMAIN grid' = 0..(grid_width' * grid_height' - 1)
                 /\ \A i \in DOMAIN grid' :
                       grid'[i] = IF i \in fresh.filled THEN 0 ELSE None
                 /\ particles_stuck' = fresh.count
                 /\ max_radius' = fresh.radius
                 /\ paused' = FALSE
                 /\ UNCHANGED <<num_particles, stickiness, seed_pattern>>]_vars

\* resize to 8 x 3 was just called, from other dimensions, with the Line seed
\* active: 4 seed cells.
C12_Witness ==
    /\ last = "resize" /\ resized
    /\ grid_width = 8 /\ grid_height = 3
    /\ seed_pattern = "Line" /\ particles_stuck = 4 /\ ~paused

\* C13: progress() does not decrease across step() and toggle_pause() calls
\* that leave num_particles as it is.
C13_ProgressMonotone ==
    [][(last' \in {"step", "toggle_pause"} /\ num_particles' = num_particles)
          => RatioLe(Progress, Progress')]_vars

\* A step() has just stuck a particle, raising progress(), and the simulation
\* is not complete yet.
C13_Witness ==
    /\ last = "step" /\ outcome = "stick" /\ pre # NoPre
    /\ particles_stuck > pre[2] /\ particles_stuck < num_particles

\* C14: max_radius does not decrease across step(), toggle_pause(),
\* adjust_particles(), adjust_stickiness() and resize() to the current
\* dimensions; only a reset, a reseed or a resize to other dimensions may
\* lower it.
C14_MaxRadiusMonotone ==
    [][(\/ last' \in {"step", "toggle_pause", "adjust_particles", "adjust_stickiness"}
        \/ /\ last' = "resize"
           /\ grid_width' = grid_width /\ grid_height' = grid_height)
          => max_radius' >= max_radius]_vars

\* A step() has just stuck a particle nearer to the centre than max_radius,
\* which stayed as it was.
C14_Witness ==
    /\ last = "step" /\ outcome = "stick" /\ pre # NoPre
    /\ max_radius = pre[3]
    /\ \E i \in DOMAIN grid :
          /\ grid[i] = pre[2]
          /\ Dist2(i % grid_width, i \div grid_width) < max_radius

\* C15: get_cell(x, y) fails for no x, y: the grid holds grid_width *
\* grid_height cells, and the call returns None when x >= grid_width or
\* y >= grid_height, and otherwise what the cell of row y, column x holds (None
\* when it is empty, else its attachment order).
C15_GetCellTotal ==
    /\ DOMAIN grid = 0..(grid_width * grid_height - 1)
    /\ \A cx \in 0..MaxQuery, cy \in 0..MaxQuery :
          GetCell(cx, cy) =
              IF cx >= grid_width \/ cy >= grid_height THEN None
              ELSE grid[cy * grid_width + cx]

\* The grid holds a stuck particle beside the seed; get_cell finds it, and
\* returns None beyond the right and the lower edge.
C15_Witness ==
    /\ \E cx \in 0..MaxQuery, cy \in 0..MaxQuery : GetCell(cx, cy) >= 1
    /\ GetCell(grid_width, 0) = None
    /\ GetCell(0, grid_height) = None

\* C16: the attachment orders held by the occupied cells are pairwise
\* distinct, and a particle that sticks gets an attachment order larger than
\* that of every cell occupied before it.
C16_OrdersDistinctAndIncreasing ==
    [][/\ \A i, j \in Occupied' : i # j => grid'[i] # grid'[j]
       /\ (pc = "walk" /\ outcome' = "stick")
            => \A i \in Occupied :
                  grid'[AsUsize(y, 1) * grid_width + AsUsize(x, 1)] > grid[i]]_vars

\* C17: with fewer stuck particles than the minimum sample threshold,
\* calculate_fractal_dimension() returns (0.0, 0.0) and the status box shows
\* the placeholder "D_f: --".
C17_FractalSentinel ==
    particles_stuck < MinSampleThreshold
        => \A r \in CalculateFractalDimension :
              /\ r = <<0, 0>>
              /\ DimText(r[1], r[2]) = <<"D_f: --">>

\* A step() has just stuck a particle and the cluster is still below the
\* threshold.
C17_Witness ==
    /\ last = "step" /\ outcome = "stick"
    /\ particles_stuck < MinSampleThreshold
    /\ CalculateFractalDimension = {<<0, 0>>}

\* The dots (dx, dy) of a character, and the OR of the masks of a set of dots.
Dots == (0..1) \X (0..3)
RECURSIVE OrOfDots(_)
OrOfDots(S) ==
    IF S = {} THEN 0
    ELSE LET d == CHOOSE e \in S : TRUE
         IN  BitOr(BRAILLE_DOTS[d[1] + 1][d[2] + 1], OrOfDots(S \ {d}))

\* C18: the dot table gives the 8 dots 8 distinct single-bit masks whose
\* union is 0xFF, with (0,0) = 0x01, (1,0) = 0x08, (0,3) = 0x40 and
\* (1,3) = 0x80, so the OR of the masks of a set of dots determines the set:
\* the 256 sets of dots have 256 different ORs, and the pattern of every
\* rendered character is the OR of one set of dots only.
C18_DotMasks ==
    LET mask(d) == BRAILLE_DOTS[d[1] + 1][d[2] + 1]
        patterns == {rendered.cells[i].char - BRAILLE_BASE : i \in 1..Len(rendered.cells)}
    IN  /\ \A d \in Dots : mask(d) \in {1, 2, 4, 8, 16, 32, 64, 128}
        /\ \A d, e \in Dots : d # e => mask(d) # mask(e)
        /\ OrOfDots(Dots) = 255
        /\ mask(<<0, 0>>) = 1 /\ mask(<<1, 0>>) = 8
        /\ mask(<<0, 3>>) = 64 /\ mask(<<1, 3>>) = 128
        /\ Cardinality({OrOfDots(S) : S \in SUBSET Dots}) = 256
        /\ \A p \in patterns : Cardinality({S \in SUBSET Dots : OrOfDots(S) = p}) = 1

\* render_to_braille has returned a character made of several dots, the
\* bottom-right one (0x80) among them.
C18_Witness ==
    /\ last = "render_to_braille" /\ rendered.returned
    /\ \E i \in 1..Len(rendered.cells) :
          LET pattern == rendered.cells[i].char - BRAILLE_BASE
          IN  pattern > 128 /\ pattern <= 255

\* C19: render_to_braille returns, for every canvas, one cell for each
\* position (cx, cy) at least one of whose 8 sampled cells is occupied and
\* none for any other position; each cell lies in the canvas and its character
\* is U+2800 plus the OR of the masks of its occupied dots, in U+2801..U+28FF.
C19_RenderEmitsOccupied ==
    last = "render_to_braille"
        => LET cw == rendered.canvas_width
               ch == rendered.canvas_height
               cells == rendered.cells
               emitted == {<<cells[i].x, cells[i].y>> : i \in 1..Len(cells)}
               occupied(cx, cy) == {d \in Dots : Sampled(cx, cy, d[1], d[2], cw, ch) # None}
               expected == {c \in (0..(cw - 1)) \X (0..(ch - 1)) : occupied(c[1], c[2]) # {}}
           IN  /\ rendered.returned
               /\ emitted = expected
               /\ Cardinality(emitted) = Len(cells)
               /\ \A i \in 1..Len(cells) :
                     /\ cells[i].x < cw /\ cells[i].y < ch
                     /\ cells[i].char = 10240 + OrOfDots(occupied(cells[i].x, cells[i].y))
                     /\ cells[i].char \in 10241..10495

\* C20: a step() that sticks its particle at cell (ix, iy) changes exactly
\* that grid cell, which gets the attachment order particles_stuck had at the
\* call; particles_stuck grows by 1; max_radius becomes the larger of its old
\* value and the distance of (ix, iy) from the centre (width/2, height/2).
\* Distances are compared as (2*distance)^2.
C20_StickEffect ==
    [][(pc = "walk" /\ outcome' = "stick")
          => LET ix == IF x < 0 THEN 0 ELSE x
                 iy == IF y < 0 THEN 0 ELSE y
                 idx == iy * grid_width + ix
                 dist == (2 * ix - grid_width) * (2 * ix - grid_width)
                           + (2 * iy - grid_height) * (2 * iy - grid_height)
             IN  /\ DOMAIN grid' = DOMAIN grid
                 /\ \A i \in DOMAIN grid : grid'[i] # grid[i] <=> i = idx
                 /\ grid'[idx] = particles_stuck
                 /\ particles_stuck = pre[2]
                 /\ particles_stuck' = particles_stuck + 1
                 /\ max_radius' = IF dist > max_radius THEN dist ELSE max_radius]_vars

\* A step() has just stuck a particle farther from the centre than every
\* cell before it: max_radius grew.
C20_Witness ==
    /\ last = "step" /\ pc = "idle" /\ outcome = "stick" /\ pre # NoPre
    /\ particles_stuck = pre[2] + 1
    /\ max_radius > pre[3]

\* The offsets of the 8 Moore neighbours of a cell, and whether cell (cx, cy)
\* of grid g lies in the grid and is occupied.
Moore == {d \in (-1..1) \X (-1..1) : d # <<0, 0>>}
OccupiedAt(g, cx, cy) ==
    /\ cx \in 0..(grid_width - 1)
    /\ cy \in 0..(grid_height - 1)
    /\ g[cy * grid_width + cx] # None

\* C21: a particle sticks at cell (ix, iy) only if at least one of the 8 Moore
\* neighbours of (ix, iy) is occupied at that moment; with no occupied
\* neighbour the iteration does not stick, whatever the stickiness.
C21_StickNeedsNeighbour ==
    [][(pc = "walk" /\ outcome' = "stick")
          => LET ix == IF x < 0 THEN 0 ELSE x
                 iy == IF y < 0 THEN 0 ELSE y
             IN  \E d \in Moore : OccupiedAt(grid, ix + d[1], iy + d[2])]_vars

\* A step() has just stuck a particle, at the lowest stickiness, on an empty
\* cell that had exactly one occupied neighbour.
C21_Witness ==
    /\ last = "step" /\ pc = "idle" /\ outcome = "stick" /\ pre # NoPre
    /\ stickiness = MinStickiness
    /\ \E c \in (0..(grid_width - 1)) \X (0..(grid_height - 1)) :
          /\ grid[c[2] * grid_width + c[1]] = pre[2]
          /\ pre[1][c[2] * grid_width + c[1]] = None
          /\ Cardinality({d \in Moore : OccupiedAt(pre[1], c[1] + d[1], c[2] + d[2])}) = 1

\* C22: a walk iteration that evaluates sticking (the walker has not escaped,
\* its cell is in the interior and has an occupied neighbour) draws exactly
\* one random sample, however many neighbours are occupied.
C22_OneSamplePerIteration ==
    [][(/\ pc = "walk" /\ outcome' # "escape"
        /\ x > 0 /\ x < grid_width - 1 /\ y > 0 /\ y < grid_height - 1
        /\ \E d \in Moore : OccupiedAt(grid, x + d[1], y + d[2]))
          => draws' = 1]_vars

\* C23: after a walk move the walker lies in the grid interior: from the
\* second loop iteration on, 1 <= x <= grid_width - 2 and
\* 1 <= y <= grid_height - 2.
C23_WalkerClamped ==
    (pc = "walk" /\ iter >= 1)
        => /\ 1 <= x /\ x <= grid_width - 2
           /\ 1 <= y /\ y <= grid_height - 2

\* The walker has moved twice and stands in the last interior column and the
\* last interior row of the 5 x 4 grid.
C23_Witness ==
    /\ pc = "walk" /\ iter = 2
    /\ grid_width = 5 /\ grid_height = 4
    /\ x = grid_width - 2 /\ y = grid_height - 2

\* C24: step() never commits a particle to an occupied cell: the cell written
\* on stick was empty right before the write.
C24_StickOnEmptyCell ==
    [][(pc = "walk" /\ outcome' = "stick")
          => LET ix == IF x < 0 THEN 0 ELSE x
                 iy == IF y < 0 THEN 0 ELSE y
             IN  grid[iy * grid_width + ix] = None]_vars

\* C25: after new and after every resize, reset and reset_with_seed the grid
\* holds exactly grid_width * grid_height cells, indexed from 0.
C25_GridLengthMatchesDimensions ==
    /\ Cardinality(DOMAIN grid) = grid_width * grid_height
    /\ \A i \in DOMAIN grid : 0 <= i /\ i < grid_width * grid_height

\* resize has just changed the dimensions to 4 x 9, and the grid holds 36
\* cells.
C25_Witness ==
    /\ last = "resize" /\ resized
    /\ grid_width = 4 /\ grid_height = 9
    /\ Cardinality(DOMAIN grid) = 36

\* C26: on a grid of at least 3 x 3 every index step() reads or writes lies
\* in [0, grid_width * grid_height), and a particle sticks only at a cell with
\* 1 <= x <= grid_width - 2 and 1 <= y <= grid_height - 2.
C26_StepStaysInBounds ==
    [][(pc = "walk" /\ grid_width >= 3 /\ grid_height >= 3)
          => LET ix == IF x < 0 THEN 0 ELSE x
                 iy == IF y < 0 THEN 0 ELSE y
                 inside == /\ ix > 0 /\ ix < grid_width - 1
                           /\ iy > 0 /\ iy < grid_height - 1
                 size == grid_width * grid_height
             IN  /\ inside => \A k \in 1..8 :
                       NeighbourIdx(ix, iy)[k] \in 0..(size - 1)
                 /\ DOMAIN grid = 0..(size - 1)
                 /\ DOMAIN grid' = DOMAIN grid
                 /\ outcome' = "stick"
                      => /\ inside
                         /\ \E i \in DOMAIN grid : grid'[i] # grid[i]
                         /\ \A i \in DOMAIN grid :
                               grid'[i] # grid[i]
                                 => /\ 1 <= i % grid_width
                                    /\ i % grid_width <= grid_width - 2
                                    /\ 1 <= i \div grid_width
                                    /\ i \div grid_width <= grid_height - 2]_vars

\* A step() has just stuck a particle in the last interior column of the
\* 5 x 4 grid, at (3, 1).
C26_Witness ==
    /\ last = "step" /\ pc = "idle" /\ outcome = "stick" /\ pre # NoPre
    /\ grid_width = 5 /\ grid_height = 4
    /\ grid[1 * grid_width + 3] = pre[2]

\* C27: adjust_particles(delta) adds delta without i32 overflow and stores
\* clamp(num_particles + delta, MinParticles, MaxParticles) as computed in
\* unbounded integers; a positive delta never lowers num_particles.
C27_AdjustParticlesExact ==
    [][(pc = "idle" /\ last' = "adjust_particles")
          => /\ pc' = "idle"
             /\ num_particles' =
                  IF delta' >= MaxParticles - num_particles THEN MaxParticles
                  ELSE IF delta' <= MinParticles - num_particles THEN MinParticles
                  ELSE num_particles + delta'
             /\ delta' > 0 => num_particles' >= num_particles]_vars

\* C28: a step() raises particles_stuck by at most 1 and not beyond the
\* target: from particles_stuck <= num_particles it leaves
\* particles_stuck <= num_particles.
C28_StepKeepsWithinTarget ==
    [][(last' = "step" /\ particles_stuck <= num_particles)
          => /\ particles_stuck' \in {particles_stuck, particles_stuck + 1}
             /\ particles_stuck' <= num_particles']_vars

\* A step() has just stuck the particle that reaches the target exactly.
C28_Witness ==
    /\ last = "step" /\ pc = "idle" /\ outcome = "stick" /\ pre # NoPre
    /\ pre[2] = num_particles - 1
    /\ particles_stuck = num_particles

\* The occupied cells of grid g, as <<x, y>>.
OccupiedCellsOf(g) ==
    {<<i % grid_width, i \div grid_width>> : i \in {j \in DOMAIN g : g[j] # None}}

\* Two cells are Moore-adjacent.
Adjacent(c, e) == c # e /\ Abs(c[1] - e[1]) <= 1 /\ Abs(c[2] - e[2]) <= 1

\* The cells of S linked to a cell of R by a chain of Moore-adjacent cells of S.
RECURSIVE Reach(_, _)
Reach(S, R) ==
    LET more == {c \in S \ R : \E r \in R : Adjacent(c, r)}
    IN  IF more = {} THEN R ELSE Reach(S, R \cup more)

\* The set S of cells is 8-connected.
Connected(S) == S = {} \/ Reach(S, {CHOOSE c \in S : TRUE}) = S

C30_EventuallyComplete ==
    /\ (grid_width >= 8 /\ grid_height >= 8 /\ ~paused /\ Occupied # {}) ~> IsComplete
    /\ [][(IsComplete /\ pc = "idle" /\ last' = "step")
             => (ret' = "false" /\ IsComplete')]_vars

=============================================================================
